---- MODULE Spec2Model ----
(***************************************************************************)
(* Model of jager_auto_claim.py: the JagerContractInteraction client and   *)
(* the polling loop of the __main__ block.                                 *)
(*                                                                         *)
(* Python's int is unbounded and the pending reward is a uint256, so a     *)
(* reading is kept as a numeral in base 2^15: a sequence of limbs, least   *)
(* significant first, no leading zero limb; <<>> is 0.  Python's float is  *)
(* an IEEE-754 binary64: a float is kept as [m, e], the value m * 2^e with *)
(* m of exactly DBL_MANT_DIG bits, and the two divisions of line 230 are   *)
(* computed correctly rounded (round half to even), as CPython does.       *)
(***************************************************************************)
EXTENDS Integers, Sequences, FiniteSets, TLC

(***************************************************************************)
(* Unbounded naturals (Python int)                                         *)
(***************************************************************************)
\* Operators take what they use more than once as a parameter: TLC evaluates
\* a parameter once.
LimbBits == 15
Base == 2 ^ LimbBits

MaxOf(S) == CHOOSE i \in S : \A j \in S : j <= i

BigTrim(s, nz) == IF nz = {} THEN <<>> ELSE SubSeq(s, 1, MaxOf(nz))

\* s without its leading zero limbs
BigNorm(s) == BigTrim(s, {i \in 1..Len(s) : s[i] # 0})

\* a Python int below 2^31 as a numeral
BigOfNat(n) ==
    BigNorm(<<n % Base, (n \div Base) % Base, n \div (Base * Base)>>)

BigCmpOn(a, b, df) ==
    IF df = {} THEN 0
    ELSE IF a[MaxOf(df)] < b[MaxOf(df)] THEN -1 ELSE 1

\* -1, 0, 1 as a < b, a = b, a > b
BigCmp(a, b) ==
    IF Len(a) < Len(b) THEN -1
    ELSE IF Len(a) > Len(b) THEN 1
    ELSE BigCmpOn(a, b, {i \in 1..Len(a) : a[i] # b[i]})

BigLimb(a, i) == IF i <= Len(a) THEN a[i] ELSE 0

\* the carry into limb i of the limb sums s: some limb below overflows and
\* every limb between is full
Carry(s, i) ==
    IF \E j \in 1..(i - 1) :
           s[j] >= Base /\ \A k \in (j + 1)..(i - 1) : s[k] = Base - 1
    THEN 1 ELSE 0

BigAddSums(s) ==
    BigNorm([i \in 1..(Len(s) + 1) |->
                IF i <= Len(s) THEN (s[i] + Carry(s, i)) % Base ELSE Carry(s, i)])

\* a + b
BigAdd(a, b) ==
    BigAddSums([i \in 1..(IF Len(a) > Len(b) THEN Len(a) ELSE Len(b)) |->
                   BigLimb(a, i) + BigLimb(b, i)])

\* the borrow from limb i of the limb differences s
Borrow(s, i) ==
    IF \E j \in 1..(i - 1) :
           s[j] < 0 /\ \A k \in (j + 1)..(i - 1) : s[k] = 0
    THEN 1 ELSE 0

BigSubDiffs(s) == BigNorm([i \in 1..Len(s) |-> (s[i] - Borrow(s, i)) % Base])

\* a - b, for a >= b
BigSub(a, b) == BigSubDiffs([i \in 1..Len(a) |-> a[i] - BigLimb(b, i)])

\* a * Base^k
BigShiftLimbs(a, k) == IF a = <<>> THEN <<>> ELSE [i \in 1..k |-> 0] \o a

\* a * d, for one limb d
BigMulSmall(a, d) ==
    BigAdd([i \in 1..Len(a) |-> (a[i] * d) % Base],
           <<0>> \o [i \in 1..Len(a) |-> (a[i] * d) \div Base])

RECURSIVE BigMul(_, _)
BigMul(a, b) ==
    IF b = <<>> THEN <<>>
    ELSE BigAdd(BigMulSmall(a, Head(b)), BigShiftLimbs(BigMul(a, Tail(b)), 1))

\* a * 2^k
BigShl(a, k) ==
    BigShiftLimbs(BigMulSmall(a, 2 ^ (k % LimbBits)), k \div LimbBits)

\* a div 2^k, for k < LimbBits
BigShr(a, k) ==
    BigNorm([i \in 1..Len(a) |->
                (a[i] \div 2 ^ k) + (BigLimb(a, i + 1) % 2 ^ k) * 2 ^ (LimbBits - k)])

\* the number of bits of the limb d > 0
LimbLen(d) == CHOOSE k \in 1..LimbBits : 2 ^ (k - 1) <= d /\ d < 2 ^ k

\* the number of bits of a
BitLen(a) ==
    IF a = <<>> THEN 0 ELSE (Len(a) - 1) * LimbBits + LimbLen(a[Len(a)])

QuotLimbFrom(r, b, est) ==
    CHOOSE q \in {c \in (est - 2)..est : c >= 0 /\ c < Base} :
        /\ BigCmp(BigMulSmall(b, q), r) <= 0
        /\ BigCmp(BigMulSmall(b, q + 1), r) > 0

\* the limb q with q * b <= r < (q + 1) * b, for r < b * Base and b with its
\* top bit set: at most two below the estimate from the leading limbs
QuotLimb(r, b) ==
    QuotLimbFrom(r, b,
        IF BigLimb(r, Len(b) + 1) >= b[Len(b)] THEN Base - 1
        ELSE (BigLimb(r, Len(b) + 1) * Base + BigLimb(r, Len(b))) \div b[Len(b)])

RECURSIVE BigDivAt(_, _, _, _, _)
RECURSIVE BigDivStep(_, _, _, _, _)
RECURSIVE BigDivPut(_, _, _, _, _, _)

\* long division in base Base: limb i of a is brought down to the remainder r
BigDivAt(a, b, i, q, r) ==
    IF i = 0 THEN <<BigNorm(q), r>>
    ELSE BigDivStep(a, b, i, q, BigNorm(<<a[i]>> \o r))

BigDivStep(a, b, i, q, r2) == BigDivPut(a, b, i, q, r2, QuotLimb(r2, b))

BigDivPut(a, b, i, q, r2, d) ==
    BigDivAt(a, b, i - 1, <<d>> \o q, BigSub(r2, BigMulSmall(b, d)))

BigDivOut(qr, sh) == <<qr[1], BigShr(qr[2], sh)>>

BigDivNorm(as, bs, sh) ==
    BigDivOut(BigDivAt(as, bs, Len(as) - Len(bs) + 1, <<>>,
                       BigNorm(SubSeq(as, Len(as) - Len(bs) + 2, Len(as)))),
              sh)

\* <<a div b, a mod b>>, for b > 0: both operands are first scaled by 2^sh so
\* that the divisor's top bit is set
BigDivShifted(a, b, sh) ==
    BigDivNorm(BigMulSmall(a, 2 ^ sh), BigMulSmall(b, 2 ^ sh), sh)

BigDivMod(a, b) ==
    IF BigCmp(a, b) < 0 THEN <<<<>>, a>>
    ELSE BigDivShifted(a, b, LimbBits - LimbLen(b[Len(b)]))

(***************************************************************************)
(* IEEE-754 binary64 (Python float)                                        *)
(***************************************************************************)
DBL_MANT_DIG == 53

FloatZero == [m |-> <<>>, e |-> 0]

\* the quotient and remainder of n * 2^s by d (s may be negative)
ScaledDivMod(n, d, s) ==
    IF s >= 0 THEN BigDivMod(BigShl(n, s), d) ELSE BigDivMod(n, BigShl(d, -s))

\* m * 2^e with m brought back to DBL_MANT_DIG bits if rounding carried out
FloatOf(m, e) ==
    IF BitLen(m) > DBL_MANT_DIG THEN [m |-> BigShr(m, 1), e |-> e + 1]
    ELSE [m |-> m, e |-> e]

\* round half to even: c compares twice the remainder with the divisor
RoundQuot(q, c) ==
    IF c > 0 \/ (c = 0 /\ q[1] % 2 = 1) THEN BigAdd(q, <<1>>) ELSE q

TrueDivRound(qr, dd, s) ==
    FloatOf(RoundQuot(qr[1], BigCmp(BigShl(qr[2], 1), dd)), -s)

\* n / d with the quotient of n * 2^s by d as the significand
TrueDivAt(n, d, s) ==
    TrueDivRound(ScaledDivMod(n, d, s), IF s >= 0 THEN d ELSE BigShl(d, -s), s)

\* s0 gives a quotient of DBL_MANT_DIG bits, or of one bit more
TrueDivFrom(n, d, s0) ==
    TrueDivAt(n, d, IF BitLen(ScaledDivMod(n, d, s0)[1]) > DBL_MANT_DIG
                    THEN s0 - 1 ELSE s0)

\* n / d correctly rounded to DBL_MANT_DIG bits, ties to even (d > 0)
TrueDiv(n, d) ==
    IF n = <<>> THEN FloatZero
    ELSE TrueDivFrom(n, d, DBL_MANT_DIG - (BitLen(n) - BitLen(d)))

\* float / int, the int exactly representable as a float
FloatDiv(f, d) ==
    IF f.e >= 0 THEN TrueDiv(BigShl(f.m, f.e), d)
    ELSE TrueDiv(f.m, BigShl(d, -f.e))

\* float > int, compared exactly as Python compares a float with an int
FloatGt(f, n) ==
    IF f.e >= 0 THEN BigCmp(BigShl(f.m, f.e), n) > 0
    ELSE BigCmp(f.m, BigShl(n, -f.e)) > 0

(***************************************************************************)
(* Configuration of the __main__ block and the inputs of the model         *)
(***************************************************************************)
\* reward = 13784: the threshold, in millions of tokens
reward == 13784

\* 'gas': 2000000
GasLimit == 2000000

\* 10**18 and 1000000, the two divisors of line 230
Ten18 == BigMul(BigOfNat(10 ^ 9), BigOfNat(10 ^ 9))
Million == BigOfNat(1000000)

\* the second division forgotten: the value in tokens, not in millions
Descale_tokens(p) == TrueDiv(p, Ten18)

\* pending / 10**18 / 1000000
Descale(p) == FloatDiv(TrueDiv(p, Ten18), Million)

\* pending > reward
AboveReward(f) == FloatGt(f, BigOfNat(reward))

\* the threshold in the contract's units: reward * 10**6 tokens of 10**18 units
ThresholdRaw == BigMul(BigOfNat(reward), BigMul(Ten18, Million))

\* the largest excess over the threshold that the two divisions round away
RoundedAway == BigAdd(BigMul(BigOfNat(953674), Million), BigOfNat(316406))

\* 13,000,000,000 and 14,000,000,000 tokens, in the contract's units
Reading13 == BigMul(BigMul(BigOfNat(13000), Million), Ten18)
Reading14 == BigMul(BigMul(BigOfNat(14000), Million), Ten18)

\* the values pendingReward(account) returns in the model
Readings ==
    { <<>>, Reading13, Reading14,
      BigSub(ThresholdRaw, <<1>>), ThresholdRaw, BigAdd(ThresholdRaw, <<1>>),
      BigAdd(ThresholdRaw, RoundedAway),
      BigAdd(ThresholdRaw, BigAdd(RoundedAway, <<1>>)) }

\* line 230 on each of them
Descaled == [p \in Readings |-> Descale(p)]

NoReading == <<-1>>

MaxTicks == 3
MaxCalls == 2
MaxAmount == 2

\* private_key: None, '', a well-formed key, a string that is no key
Keys == {"none", "empty", "valid", "malformed"}

\* the six state-changing operations
Ops == {"deposit", "withdraw", "claim", "update_pool", "add_reward", "add_liquidity"}

\* the steps of _build_and_send_tx in program order
StepOrder == <<"from_key", "nonce", "gas_price", "build", "sign", "raw", "send", "wait">>

VARIABLES
    key,        \* self.private_key
    userAddr,   \* user_address: "valid" or "invalid" (no checksum address)
    pc,         \* position of the __main__ block, or "client" for a caller of the class
    tick,       \* iterations of the while loop begun
    pending,    \* the loop variable pending (a float after line 230)
    reading,    \* what get_pending_reward returned in this iteration
    receipt,    \* the loop variable receipt
    tickLog,    \* what this iteration printed
    tickErr,    \* which call raised in this iteration
    prev,       \* the iteration before: which call raised, whether claim() ran
    startup,    \* how the construction of the client ended
    tx,         \* the running _build_and_send_tx call
    sent,       \* transactions the node accepted from send_raw_transaction
    inflight,   \* of those, the ones neither included nor known to have failed
    calls,      \* operations a caller of the class invoked
    result      \* how the last of them ended

vars == <<key, userAddr, pc, tick, pending, reading, receipt, tickLog, tickErr,
          prev, startup, tx, sent, inflight, calls, result>>

loopVars == <<pc, tick, pending, reading, receipt, tickLog, tickErr, prev, startup>>
clientVars == <<calls, result>>

TxIdle ==
    [pc |-> "idle", op |-> "none", arg |-> 0, value |-> 0, gas |-> 0,
     attempted |-> <<>>, err |-> "none", broadcasts |-> 0, id |-> 0,
     status |-> "none"]

NoReceipt == [id |-> 0, status |-> "none"]

Entry(k, n) == [k |-> k, id |-> n]
Logged(k) == \E i \in 1..Len(tickLog) : tickLog[i].k = k
Count(k) == Cardinality({i \in 1..Len(tickLog) : tickLog[i].k = k})

NoPrev == [err |-> "none", claimed |-> FALSE]

(***************************************************************************)
(* JagerContractInteraction: the state-changing operations                 *)
(***************************************************************************)
\* the call self._build_and_send_tx(function, value), about to run line 104
Invoke(op, arg, value) ==
    [TxIdle EXCEPT !.pc = "check_key", !.op = op, !.arg = arg, !.value = value]

add_liquidity(token_amount, bnb_amount) == Invoke("add_liquidity", token_amount, bnb_amount)
add_reward(amount) == Invoke("add_reward", amount, 0)
claim == Invoke("claim", 0, 0)
deposit(amount) == Invoke("deposit", amount, 0)
update_pool == Invoke("update_pool", 0, 0)
withdraw(amount) == Invoke("withdraw", amount, 0)

\* a step of _build_and_send_tx that succeeded, and one that raised
Step(s, next) == [tx EXCEPT !.pc = next, !.attempted = Append(@, s)]
Raise(s, e) == [tx EXCEPT !.pc = "raised", !.attempted = Append(@, s), !.err = e]

\* the credential check left out
tx_check_key_skipped ==
    /\ tx.pc = "check_key"
    /\ tx' = [tx EXCEPT !.pc = "from_key"]
    /\ UNCHANGED <<key, userAddr, loopVars, sent, inflight, clientVars>>

\* if not self.private_key: raise Exception
tx_check_key ==
    /\ tx.pc = "check_key"
    /\ tx' = IF key \in {"none", "empty"}
             THEN [tx EXCEPT !.pc = "raised", !.err = "NoCredential"]
             ELSE [tx EXCEPT !.pc = "from_key"]
    /\ UNCHANGED <<key, userAddr, loopVars, sent, inflight, clientVars>>

\* account = self.web3.eth.account.from_key(self.private_key)
tx_from_key ==
    /\ tx.pc = "from_key"
    /\ tx' = IF key = "malformed"
             THEN Raise("from_key", "BadKey")
             ELSE Step("from_key", "nonce")
    /\ UNCHANGED <<key, userAddr, loopVars, sent, inflight, clientVars>>

\* nonce = self.web3.eth.get_transaction_count(address)
tx_get_transaction_count ==
    /\ tx.pc = "nonce"
    /\ \E ok \in BOOLEAN :
        tx' = IF ok THEN Step("nonce", "gas_price") ELSE Raise("nonce", "RemoteRead")
    /\ UNCHANGED <<key, userAddr, loopVars, sent, inflight, clientVars>>

\* 'gasPrice': self.web3.eth.gas_price, evaluated before build_transaction runs
tx_gas_price ==
    /\ tx.pc = "gas_price"
    /\ \E ok \in BOOLEAN :
        tx' = IF ok THEN Step("gas_price", "build") ELSE Raise("gas_price", "RemoteRead")
    /\ UNCHANGED <<key, userAddr, loopVars, sent, inflight, clientVars>>

\* tx = function.build_transaction({... 'gas': 2000000 ...})
tx_build_transaction ==
    /\ tx.pc = "build"
    /\ \E ok \in BOOLEAN :
        tx' = IF ok THEN [Step("build", "sign") EXCEPT !.gas = GasLimit]
              ELSE Raise("build", "RemoteRead")
    /\ UNCHANGED <<key, userAddr, loopVars, sent, inflight, clientVars>>

\* a failed signature swallowed: the operation goes on
tx_sign_transaction_unchecked ==
    /\ tx.pc = "sign"
    /\ \E ok \in BOOLEAN :
        tx' = IF ok THEN Step("sign", "raw")
              ELSE [Step("sign", "raw") EXCEPT !.err = "SignError"]
    /\ UNCHANGED <<key, userAddr, loopVars, sent, inflight, clientVars>>

\* signed_tx = self.web3.eth.account.sign_transaction(tx, self.private_key)
tx_sign_transaction ==
    /\ tx.pc = "sign"
    /\ \E ok \in BOOLEAN :
        tx' = IF ok THEN Step("sign", "raw") ELSE Raise("sign", "SignError")
    /\ UNCHANGED <<key, userAddr, loopVars, sent, inflight, clientVars>>

\* where the installed Web3.py keeps the signed bytes, if anywhere
RawAttrs == {"rawTransaction", "raw_transaction", "other_raw", "none"}

\* raw_tx = ...; if not raw_tx: raise Exception
tx_raw ==
    /\ tx.pc = "raw"
    /\ \E attr \in RawAttrs :
        tx' = IF attr = "none" THEN Raise("raw", "NoRawTx") ELSE Step("raw", "send")
    /\ UNCHANGED <<key, userAddr, loopVars, sent, inflight, clientVars>>

\* tx_hash = self.web3.eth.send_raw_transaction(raw_tx)
tx_send_raw_transaction ==
    /\ tx.pc = "send"
    /\ \E ok \in BOOLEAN :
        IF ok
        THEN /\ tx' = [Step("send", "wait") EXCEPT !.broadcasts = @ + 1, !.id = sent + 1]
             /\ sent' = sent + 1
             /\ inflight' = inflight + 1
        ELSE /\ tx' = Raise("send", "Submission")
             /\ UNCHANGED <<sent, inflight>>
    /\ UNCHANGED <<key, userAddr, loopVars, clientVars>>

\* a timed-out wait answered by sending the transaction again
tx_wait_for_transaction_receipt_resend ==
    /\ tx.pc = "wait"
    /\ \E out \in {"included", "reverted", "timeout", "error"} :
        IF out \in {"included", "reverted"}
        THEN /\ tx' = [Step("wait", "returned") EXCEPT !.status = out]
             /\ inflight' = inflight - 1
             /\ UNCHANGED sent
        ELSE IF out = "timeout" /\ tx.broadcasts < 2
        THEN /\ tx' = [tx EXCEPT !.broadcasts = @ + 1, !.id = sent + 1]
             /\ sent' = sent + 1
             /\ inflight' = inflight + 1
        ELSE /\ tx' = Raise("wait", "RemoteRead")
             /\ UNCHANGED <<sent, inflight>>
    /\ UNCHANGED <<key, userAddr, loopVars, clientVars>>

\* receipt = self.web3.eth.wait_for_transaction_receipt(tx_hash); return receipt
tx_wait_for_transaction_receipt ==
    /\ tx.pc = "wait"
    /\ \E out \in {"included", "reverted", "timeout", "error"} :
        IF out \in {"included", "reverted"}
        THEN /\ tx' = [Step("wait", "returned") EXCEPT !.status = out]
             /\ inflight' = inflight - 1
        ELSE /\ tx' = Raise("wait", IF out = "timeout" THEN "ConfirmationTimeout"
                                                        ELSE "RemoteRead")
             /\ UNCHANGED inflight
    /\ UNCHANGED <<key, userAddr, loopVars, sent, clientVars>>

build_and_send_tx ==
    \/ tx_check_key
    \/ tx_from_key
    \/ tx_get_transaction_count
    \/ tx_gas_price
    \/ tx_build_transaction
    \/ tx_sign_transaction
    \/ tx_raw
    \/ tx_send_raw_transaction
    \/ tx_wait_for_transaction_receipt

(***************************************************************************)
(* The __main__ block                                                      *)
(***************************************************************************)
\* the connection check left out of the constructor
Construct_unchecked ==
    /\ pc = "start"
    /\ \E addrOk \in BOOLEAN, connected \in BOOLEAN :
        IF ~addrOk
        THEN /\ startup' = "bad_address"
             /\ pc' = "crashed"
             /\ UNCHANGED <<tick, pending>>
        ELSE /\ startup' = IF connected THEN "ok" ELSE "unreachable"
             /\ pc' = "lp_read"
             /\ tick' = 1
             /\ pending' = FloatZero
    /\ UNCHANGED <<key, userAddr, reading, receipt, tickLog, tickErr, prev, tx,
                   sent, inflight, clientVars>>

\* jager = JagerContractInteraction(...): to_checksum_address and is_connected
\* raise out of the script; otherwise pending = 0 and the loop is entered
Construct ==
    /\ pc = "start"
    /\ \E addrOk \in BOOLEAN, connected \in BOOLEAN :
        IF ~addrOk
        THEN /\ startup' = "bad_address"
             /\ pc' = "crashed"
             /\ UNCHANGED <<tick, pending>>
        ELSE IF ~connected
        THEN /\ startup' = "unreachable"
             /\ pc' = "crashed"
             /\ UNCHANGED <<tick, pending>>
        ELSE /\ startup' = "ok"
             /\ pc' = "lp_read"
             /\ tick' = 1
             /\ pending' = FloatZero
    /\ UNCHANGED <<key, userAddr, reading, receipt, tickLog, tickErr, prev, tx,
                   sent, inflight, clientVars>>

\* the LP-token read guarded on its own: its failure does not leave the try body
get_lp_token_address_swallowed ==
    /\ pc = "lp_read"
    /\ \E ok \in BOOLEAN :
        IF ok
        THEN /\ tickLog' = Append(tickLog, Entry("lp", 0))
             /\ pc' = "pending_read"
             /\ UNCHANGED tickErr
        ELSE /\ pc' = "compare"
             /\ tickErr' = "lp"
             /\ UNCHANGED tickLog
    /\ UNCHANGED <<key, userAddr, tick, pending, reading, receipt, prev, startup,
                   tx, sent, inflight, clientVars>>

\* lp_token = jager.get_lp_token_address(); print(...)
get_lp_token_address ==
    /\ pc = "lp_read"
    /\ \E ok \in BOOLEAN :
        IF ok
        THEN /\ tickLog' = Append(tickLog, Entry("lp", 0))
             /\ pc' = "pending_read"
             /\ UNCHANGED tickErr
        ELSE /\ pc' = "except"
             /\ tickErr' = "lp"
             /\ UNCHANGED tickLog
    /\ UNCHANGED <<key, userAddr, tick, pending, reading, receipt, prev, startup,
                   tx, sent, inflight, clientVars>>

\* pending = jager.get_pending_reward(user_address)
\* pending = pending / 10**18 /1000000; print(...)
get_pending_reward ==
    /\ pc = "pending_read"
    /\ IF userAddr = "invalid"
       THEN /\ pc' = "except"
            /\ tickErr' = "address"
            /\ UNCHANGED <<pending, reading, tickLog>>
       ELSE \E ok \in BOOLEAN :
            IF ok
            THEN \E p \in Readings :
                 /\ reading' = p
                 /\ pending' = Descaled[p]
                 /\ tickLog' = Append(tickLog, Entry("pending", 0))
                 /\ pc' = "compare"
                 /\ UNCHANGED tickErr
            ELSE /\ pc' = "except"
                 /\ tickErr' = "pending"
                 /\ UNCHANGED <<pending, reading, tickLog>>
    /\ UNCHANGED <<key, userAddr, tick, receipt, prev, startup, tx, sent, inflight,
                   clientVars>>

\* if pending > reward: print(...); receipt = jager.claim()
Compare ==
    /\ pc = "compare"
    /\ IF AboveReward(pending)
       THEN /\ tickLog' = Append(tickLog, Entry("start", 0))
            /\ pc' = "claiming"
            /\ tx' = claim
       ELSE /\ pc' = "tail"
            /\ UNCHANGED <<tickLog, tx>>
    /\ UNCHANGED <<key, userAddr, tick, pending, reading, receipt, tickErr, prev,
                   startup, sent, inflight, clientVars>>

\* claim() returned: receipt = ...; print(receipt.transactionHash.hex())
ClaimReturned ==
    /\ pc = "claiming"
    /\ tx.pc = "returned"
    /\ receipt' = [id |-> tx.id, status |-> tx.status]
    /\ tickLog' = Append(tickLog, Entry("hash", tx.id))
    /\ pc' = "tail"
    /\ tx' = TxIdle
    /\ UNCHANGED <<key, userAddr, tick, pending, reading, tickErr, prev, startup,
                   sent, inflight, clientVars>>

\* a failed claim retried at once
ClaimRaised_retry ==
    /\ pc = "claiming"
    /\ tx.pc = "raised"
    /\ IF Count("start") < 2
       THEN /\ tickLog' = Append(tickLog, Entry("start", 0))
            /\ tx' = claim
            /\ UNCHANGED <<pc, tickErr>>
       ELSE /\ pc' = "except"
            /\ tickErr' = "claim"
            /\ tx' = TxIdle
            /\ UNCHANGED tickLog
    /\ UNCHANGED <<key, userAddr, tick, pending, reading, receipt, prev,
                   startup, sent, inflight, clientVars>>

\* claim() raised: control leaves the try body
ClaimRaised ==
    /\ pc = "claiming"
    /\ tx.pc = "raised"
    /\ pc' = "except"
    /\ tickErr' = "claim"
    /\ tx' = TxIdle
    /\ UNCHANGED <<key, userAddr, tick, pending, reading, receipt, tickLog, prev,
                   startup, sent, inflight, clientVars>>

\* the handler raising again: the script ends
Except_reraise ==
    /\ pc = "except"
    /\ tickLog' = Append(tickLog, Entry("error", 0))
    /\ pc' = "crashed"
    /\ UNCHANGED <<key, userAddr, tick, pending, reading, receipt, tickErr, prev,
                   startup, tx, sent, inflight, clientVars>>

\* except Exception as e: print(...)
Except ==
    /\ pc = "except"
    /\ tickLog' = Append(tickLog, Entry("error", 0))
    /\ pc' = "tail"
    /\ UNCHANGED <<key, userAddr, tick, pending, reading, receipt, tickErr, prev,
                   startup, tx, sent, inflight, clientVars>>

\* print("等待60秒,减少RPC的负担")
LogWait ==
    /\ pc = "tail"
    /\ tickLog' = Append(tickLog, Entry("wait", 0))
    /\ pc' = "sleep"
    /\ UNCHANGED <<key, userAddr, tick, pending, reading, receipt, tickErr, prev,
                   startup, tx, sent, inflight, clientVars>>

\* time.sleep(60), then while True again; meanwhile the node may include
\* transactions it holds
Sleep ==
    /\ pc = "sleep"
    /\ tick < MaxTicks
    /\ tick' = tick + 1
    /\ pc' = "lp_read"
    /\ prev' = [err |-> tickErr, claimed |-> Logged("start")]
    /\ tickErr' = "none"
    /\ tickLog' = <<>>
    /\ reading' = NoReading
    /\ \E k \in 0..inflight : inflight' = inflight - k
    /\ UNCHANGED <<key, userAddr, pending, receipt, startup, tx, sent, clientVars>>

Init ==
    /\ key \in Keys
    /\ userAddr \in {"valid", "invalid"}
    /\ pc = "start"
    /\ tick = 0
    /\ pending = FloatZero
    /\ reading = NoReading
    /\ receipt = NoReceipt
    /\ tickLog = <<>>
    /\ tickErr = "none"
    /\ prev = NoPrev
    /\ startup = "none"
    /\ tx = TxIdle
    /\ sent = 0
    /\ inflight = 0
    /\ calls = 0
    /\ result = "none"

Next ==
    \/ Construct
    \/ get_lp_token_address
    \/ get_pending_reward
    \/ Compare
    \/ build_and_send_tx
    \/ ClaimReturned
    \/ ClaimRaised
    \/ Except
    \/ LogWait
    \/ Sleep

Spec == Init /\ [][Next]_vars

(***************************************************************************)
(* A caller of the class: any of the six operations, with any credential   *)
(***************************************************************************)
Amounts == 1..MaxAmount

Call ==
    /\ pc = "client"
    /\ tx.pc = "idle"
    /\ calls < MaxCalls
    /\ calls' = calls + 1
    /\ \E a \in Amounts, v \in Amounts :
        tx' \in {add_liquidity(a, v), add_reward(a), claim, deposit(a),
                 update_pool, withdraw(a)}
    /\ UNCHANGED <<key, userAddr, loopVars, sent, inflight, result>>

\* the operation returns its receipt, or its exception reaches the caller
Return ==
    /\ pc = "client"
    /\ tx.pc \in {"returned", "raised"}
    /\ result' = IF tx.pc = "returned" THEN "receipt" ELSE tx.err
    /\ tx' = TxIdle
    /\ \E k \in 0..inflight : inflight' = inflight - k
    /\ UNCHANGED <<key, userAddr, loopVars, sent, calls>>

InitClient ==
    /\ key \in Keys
    /\ userAddr = "valid"
    /\ pc = "client"
    /\ tick = 0
    /\ pending = FloatZero
    /\ reading = NoReading
    /\ receipt = NoReceipt
    /\ tickLog = <<>>
    /\ tickErr = "none"
    /\ prev = NoPrev
    /\ startup = "ok"
    /\ tx = TxIdle
    /\ sent = 0
    /\ inflight = 0
    /\ calls = 0
    /\ result = "none"

NextClient ==
    \/ Call
    \/ build_and_send_tx
    \/ Return

SpecClient == InitClient /\ [][NextClient]_vars

(***************************************************************************)
(* Properties                                                              *)
(***************************************************************************)
\* line 232 has run on the reading of this iteration
Decided == reading # NoReading /\ pc # "compare"

\* the try statement of this iteration is over
BodyDone == pc \in {"tail", "sleep"}

\* pendingReward was called on the node in this iteration
PendingReadIssued == Logged("pending") \/ tickErr = "pending"

\* LPToken was called on the node in this iteration
LpReadIssued == Logged("lp") \/ tickErr = "lp"

IsPrefix(s, u) == Len(s) <= Len(u) /\ s = SubSeq(u, 1, Len(s))

Last(s) == s[Len(s)]

\* C1: in every tick claim() is invoked exactly when the integer reading is at
\* or above the threshold: never one unit below it, always at it and above it.
C1_IntegerThreshold ==
    Decided => (Logged("start") <=> BigCmp(reading, ThresholdRaw) >= 0)

C3_NextTickReadsPending ==
    (BodyDone /\ prev.err \in {"lp", "pending"}) => PendingReadIssued

\* C3 as amended: a failed read is logged and never ends the loop, whatever the
\* number of consecutive failures; the next iteration starts again with the
\* LP-token read and calls pendingReward when that read succeeds and the
\* account address is valid.
C3_ReadFailureContinues ==
    /\ pc = "crashed" => tick = 0
    /\ tickErr # "none" => pc \in {"except", "tail", "sleep"}
    /\ (tickErr # "none" /\ BodyDone) => Logged("error")
    /\ pc \in {"except", "tail"} => ENABLED Next
    /\ (BodyDone /\ prev.err \in {"lp", "pending"}) =>
          /\ LpReadIssued
          /\ (Logged("lp") /\ userAddr = "valid") => PendingReadIssued

\* C3 witness: the LP-token read failed in two iterations in a row and the
\* loop is about to sleep again.
C3_Witness ==
    /\ tick >= 3
    /\ prev.err = "lp"
    /\ tickErr = "lp"
    /\ pc = "sleep"

\* C4 as stated: claim() runs at most once per tick, and after a tick in which
\* it ran (failed or not) the next tick calls pendingReward again.
C4_NextTickRereads ==
    /\ Count("start") <= 1
    /\ (BodyDone /\ prev.claimed) => PendingReadIssued

\* C4 as amended: once claim() has returned or raised the loop is idle again
\* (a failure is logged, no second claim in the tick), and the next tick starts
\* again with the LP-token read; when that read succeeds it calls pendingReward,
\* and when that succeeds too it claims exactly if the new value is above the
\* threshold.
C4_ClaimingToIdle ==
    /\ Count("start") <= 1
    /\ Count("hash") <= 1
    /\ tickErr = "claim" => Count("start") = 1 /\ ~Logged("hash") /\ tx = TxIdle
    /\ (tickErr = "claim" /\ BodyDone) => Logged("error")
    /\ (BodyDone /\ Logged("start")) =>
          /\ tx = TxIdle
          /\ Logged("hash") <=> tickErr = "none"
    /\ (BodyDone /\ prev.claimed) =>
          /\ LpReadIssued
          /\ Logged("lp") => PendingReadIssued
          /\ Logged("pending") =>
                (Logged("start") <=> AboveReward(Descaled[reading]))

\* C4 witness: claim() failed in the iteration before, ran again in this one
\* and failed again; the loop is about to sleep.
C4_Witness ==
    /\ prev.err = "claim"
    /\ tickErr = "claim"
    /\ Logged("start")
    /\ pc = "sleep"

C6_NoSecondOutstandingClaim == inflight <= 1

\* C7: the steps run in the order nonce, gas price, construction, signature,
\* broadcast, receipt wait; a step that fails is the last one run; nothing is
\* broadcast unless every step before succeeded, and a receipt is returned only
\* after the broadcast.
C7_StepOrder ==
    /\ IsPrefix(tx.attempted, StepOrder)
    /\ tx.err # "none" <=> tx.pc = "raised"
    /\ \A i \in 1..Len(StepOrder) : tx.pc = StepOrder[i] => Len(tx.attempted) = i - 1
    /\ tx.broadcasts > 0 =>
          /\ Len(tx.attempted) >= 7
          /\ tx.gas = GasLimit
          /\ tx.pc = "raised" => Last(tx.attempted) = "wait"
    /\ tx.pc = "returned" =>
          tx.attempted = StepOrder /\ tx.broadcasts = 1 /\ tx.id > 0

\* C7 witness: an operation went through all the steps and returned a receipt.
C7_Witness ==
    /\ tx.pc = "returned"
    /\ tx.status = "included"
    /\ tx.op = "withdraw"

\* C8: when the contract address is invalid or the node is unreachable the
\* construction fails and the script ends there: no iteration, no read of the
\* node, no claim.
C8_StartupFatal ==
    /\ startup \in {"bad_address", "unreachable"} =>
          /\ pc = "crashed"
          /\ tick = 0
          /\ tickLog = <<>>
          /\ reading = NoReading
          /\ tx = TxIdle
          /\ sent = 0
    /\ pc = "crashed" => startup \in {"bad_address", "unreachable"}
    /\ tick > 0 => startup = "ok"

\* C8 witness: the node was unreachable at construction.
C8_Witness == startup = "unreachable" /\ pc = "crashed"

\* C9: with the threshold of 13784 million tokens, a reading of 13,000,000,000
\* tokens issues no claim; a reading of 14,000,000,000 tokens invokes claim()
\* exactly once in the tick, and when it returns a receipt the transaction id
\* of that receipt is printed before the loop sleeps.
C9_Scenario ==
    /\ (Decided /\ reading = Reading13) => ~Logged("start")
    /\ (Decided /\ reading = Reading14) => Count("start") = 1
    /\ (BodyDone /\ reading = Reading14 /\ tickErr = "none") =>
          /\ receipt.id = sent
          /\ Logged("hash")
          /\ \A i \in 1..Len(tickLog) :
                /\ tickLog[i].k = "hash" => tickLog[i].id = receipt.id
                /\ tickLog[i].k = "wait" =>
                      \E j \in 1..(i - 1) : tickLog[j] = Entry("hash", receipt.id)

\* C9 witness: the reading was 14,000,000,000 tokens, the claim returned its
\* receipt and the loop is about to sleep.
C9_Witness ==
    /\ reading = Reading14
    /\ pc = "sleep"
    /\ tickErr = "none"
    /\ receipt.id > 0

\* C10: claim() runs only in a tick whose LP-token read and pendingReward read
\* both succeeded, on the value read in that tick; a tick in which a read
\* failed issues no claim, whatever the loop variable still holds.
C10_NoStaleClaim ==
    /\ Logged("start") =>
          /\ Logged("lp")
          /\ Logged("pending")
          /\ reading # NoReading
          /\ pending = Descaled[reading]
          /\ AboveReward(pending)
    /\ tickErr \in {"lp", "address", "pending"} =>
          ~Logged("start") /\ tx = TxIdle

\* C10 witness: the LP-token read failed while the loop variable still holds
\* a value above the threshold from an earlier tick; the loop is about to sleep.
C10_Witness ==
    /\ tickErr = "lp"
    /\ AboveReward(pending)
    /\ pc = "sleep"

====
